---------------------------- MODULE Spec2Model ----------------------------
(***************************************************************************)
(* Model of pytorch_lightning/callbacks/swa.py (StochasticWeightAveraging) *)
(* driven by the host training loop's hook sequence, and of                *)
(* pytorch_lightning/plugins/training_type/deepspeed.py (DeepSpeedPlugin)  *)
(* driven by the host's setup and pre_training calls.                      *)
(*                                                                         *)
(* Python values are records [t, n, d]: t is the Python type name, and a   *)
(* number is the rational n/d (d > 0).  Tensor elements are rationals      *)
(* <<n, d>> in lowest terms: the model computes in exact arithmetic, it    *)
(* does not model floating-point rounding.  Fractions given as floats are  *)
(* dyadic (k/4), for which the float product with a small integer is       *)
(* exact.  Attributes named _x in the source are fields x of the record    *)
(* self; an attribute that has not been assigned yet is absent from        *)
(* self.defined.                                                           *)
(***************************************************************************)
EXTENDS Integers, Naturals, Sequences, FiniteSets, TLC

VARIABLES
    pc,             \* position of the host program: which call comes next
    err,            \* the exception that ended the run, "none" while it runs
    args,           \* the constructor arguments (consumed by __init__)
    self,           \* the callback's attributes
    trainer,        \* the host loop's state the callback reads and writes
    pl_module,      \* the live model: parameters, batch-norm modules, device
    average_model,  \* the averaged model: parameters, device
    plugin,         \* the DeepSpeedPlugin's attributes
    hist            \* observation log of the calls made (not program state)

vars == <<pc, err, args, self, trainer, pl_module, average_model, plugin, hist>>

---------------------------------------------------------------------------
(* Bounds of the model *)

\* largest trainer.max_epochs the host loop is started with
MaxEpochs == 3

\* largest number of batch-normalization modules in the model
MaxBN == 2

\* largest number of optimizers / lr schedulers the trainer holds
MaxOpt == 2

\* largest number of direct calls of the two batch-norm routines
MaxCalls == 4

---------------------------------------------------------------------------
(* Python values *)

PyInt(i) == [t |-> "int", n |-> i, d |-> 1]

PyFloat(a, b) == [t |-> "float", n |-> a, d |-> b]

PyNone == [t |-> "NoneType", n |-> 0, d |-> 1]

PyObj(name) == [t |-> name, n |-> 0, d |-> 1]

\* x < k for a Python number x and an integer k
PyLess(x, k) == x.n < k * x.d

\* x <= k
PyLeq(x, k) == x.n <= k * x.d

\* int(m * x) for an integer m >= 0 and a float x >= 0: truncation
IntOfProduct(m, x) == (m * x.n) \div x.d

Max(a, b) == IF a >= b THEN a ELSE b

PyList(items) == [t |-> "list", n |-> 0, d |-> 1, items |-> items]

---------------------------------------------------------------------------
(* Tensor elements: rationals <<n, d>> in lowest terms, d > 0 *)

Abs(i) == IF i < 0 THEN -i ELSE i

RECURSIVE GCD(_, _)
GCD(a, b) == IF b = 0 THEN a ELSE GCD(b, a % b)

Norm(a, b) ==
    LET g == GCD(Abs(a), b)
    IN  <<a \div g, b \div g>>

RAdd(x, y) == Norm(x[1] * y[2] + y[1] * x[2], x[2] * y[2])

RSub(x, y) == Norm(x[1] * y[2] - y[1] * x[2], x[2] * y[2])

\* x / k for an integer k > 0
RDivInt(x, k) == Norm(x[1], x[2] * k)

---------------------------------------------------------------------------
(* Inputs *)

\* the model's parameters, in the order parameters() yields them
ParamNames == {"weight", "bias"}

\* the values training may leave in a parameter
WeightVals == {<<0, 1>>, <<1, 1>>}

Weights == [ParamNames -> WeightVals]

\* the freshly initialised model
InitialWeights == [p \in ParamNames |-> <<0, 1>>]

\* swa_epoch_start as given: integers 0 .. MaxEpochs + 1 and dyadic floats
EpochStartArgs ==
    {PyInt(i) : i \in 0 .. MaxEpochs + 1}
        \cup {PyFloat(k, 4) : k \in {-1, 0, 1, 2, 3, 4, 5}}

\* swa_lrs as given: 0.1, -0.1, None, 1, [0.1, -0.2], [0.1, 0.2], []
SwaLrsArgs ==
    {PyFloat(1, 10), PyFloat(-1, 10), PyNone, PyInt(1),
     PyList(<<PyFloat(1, 10), PyFloat(-2, 10)>>),
     PyList(<<PyFloat(1, 10), PyFloat(2, 10)>>),
     PyList(<<>>)}

\* avg_fn as given: None, a user function, a non-callable
AvgFnArgs == {PyNone, PyObj("function"), PyObj("int")}

\* device as given
DeviceArgs == {PyObj("torch.device"), PyObj("int")}

Args ==
    [swa_epoch_start : EpochStartArgs, swa_lrs : SwaLrsArgs,
     annealing_epochs : {10}, annealing_strategy : {"cos"},
     avg_fn : AvgFnArgs, device : DeviceArgs]

\* a batch-normalization module after training: module i has momentum i/10
BatchNorm(i) ==
    [momentum |-> PyFloat(i, 10), running_mean |-> 5, running_var |-> 7,
     num_batches_tracked |-> 3]

\* the models the hooks may be handed
Modules ==
    {[params |-> InitialWeights, bn |-> [i \in 1 .. k |-> BatchNorm(i)],
      device |-> "cpu", training |-> TRUE] : k \in 0 .. MaxBN}

\* the host loops the hooks may be handed
Trainers ==
    {[max_epochs |-> e, current_epoch |-> 0,
      optimizers |-> [i \in 1 .. no |-> "optimizer"],
      lr_schedulers |-> [i \in 1 .. ns |-> [scheduler |-> "user_scheduler"]],
      skip_backward |-> FALSE, num_training_batches |-> 4,
      accumulate_grad_batches |-> 2, train_dataloader_len |-> 4] :
        e \in 1 .. MaxEpochs, no \in 0 .. MaxOpt, ns \in 0 .. MaxOpt}

NoTrainer == CHOOSE t \in Trainers : t.max_epochs = 1 /\ t.optimizers = <<>> /\ t.lr_schedulers = <<>>

NoModule == [params |-> InitialWeights, bn |-> <<>>, device |-> "cpu", training |-> TRUE]

NoArgs == [swa_epoch_start |-> PyNone, swa_lrs |-> PyNone, annealing_epochs |-> 0,
           annealing_strategy |-> "", avg_fn |-> PyNone, device |-> PyNone]

NoHist ==
    [given_start |-> PyNone, orig |-> NoTrainer, updates |-> <<>>,
     transfers |-> <<>>, swaps |-> <<>>, resets |-> 0, restores |-> 0,
     branches |-> {}, starts |-> 0,
     sum |-> [p \in ParamNames |-> <<0, 1>>],
     calls |-> <<>>, before |-> <<>>,
     steps |-> <<>>, environ |-> <<>>, config |-> <<>>, finalized |-> <<>>]

\* the plugin before DeepSpeedPlugin.__init__
NoPlugin ==
    [parallel_devices |-> <<>>, config |-> <<>>, _config_initialized |-> FALSE,
     model |-> "none", optimizer |-> PyNone, scheduler |-> PyNone,
     global_rank |-> -1, world_size |-> -1, local_rank |-> -1,
     dist |-> [rank |-> -1, device |-> "none"],
     is_initialized |-> FALSE]     \* torch_distrib.is_initialized()

---------------------------------------------------------------------------
(* StochasticWeightAveraging.__init__ *)

\* the checks of __init__ that raise MisconfigurationException
InitRaises(a) ==
    \/ a.swa_epoch_start.t = "int" /\ PyLess(a.swa_epoch_start, 1)
    \/ a.swa_epoch_start.t = "float"
         /\ ~(a.swa_epoch_start.n >= 0 /\ PyLeq(a.swa_epoch_start, 1))
    \/ a.swa_lrs.t \notin {"float", "list"}
    \/ a.swa_lrs.t = "float" /\ PyLeq(a.swa_lrs, 0)
    \/ a.swa_lrs.t = "list"
         /\ ~(\A i \in DOMAIN a.swa_lrs.items :
                ~PyLeq(a.swa_lrs.items[i], 0) /\ a.swa_lrs.items[i].t = "float")
    \/ a.avg_fn.t # "NoneType" /\ a.avg_fn.t # "function"
    \/ a.device.t # "NoneType" /\ a.device.t \notin {"torch.device", "str"}

\* the attributes __init__ stores; avg_fn or self.avg_fn
InitAttrs(a) ==
    [_swa_epoch_start |-> a.swa_epoch_start,
     _swa_lrs |-> a.swa_lrs,
     _annealing_epochs |-> a.annealing_epochs,
     _annealing_strategy |-> a.annealing_strategy,
     _avg_fn |-> IF a.avg_fn.t = "function" THEN "user_fn" ELSE "avg_fn",
     _device |-> a.device,
     _model_contains_batch_norm |-> FALSE,   \* None: only its truth value is read
     _max_epochs |-> 0,
     n_averaged |-> 0,
     _accumulate_grad_batches |-> 0,
     momenta |-> <<>>,
     defined |-> {}]

NoSelf == [InitAttrs(NoArgs) EXCEPT !._avg_fn = ""]

Init ==
    /\ pc = "new"
    /\ err = "none"
    /\ args \in Args
    /\ self = NoSelf
    /\ trainer = NoTrainer
    /\ pl_module = NoModule
    /\ average_model = [params |-> InitialWeights, device |-> "none"]
    /\ plugin = NoPlugin
    /\ hist = NoHist

StochasticWeightAveraging ==
    /\ pc = "new"
    /\ IF InitRaises(args)
         THEN /\ pc' = "raised"
              /\ err' = "MisconfigurationException"
              /\ self' = self
              /\ hist' = hist
         ELSE /\ pc' = "configured"
              /\ err' = err
              /\ self' = InitAttrs(args)
              /\ hist' = [hist EXCEPT !.given_start = args.swa_epoch_start]
    /\ args' = NoArgs
    /\ UNCHANGED <<trainer, pl_module, average_model, plugin>>

---------------------------------------------------------------------------
(* Properties and static helpers of the callback *)

\* a variant that forgets the conversion to a 0-based index
swa_start_one_based ==
    IF self._swa_epoch_start.t = "int" THEN Max(self._swa_epoch_start.n, 0) ELSE 0

\* max(self._swa_epoch_start - 1, 0); a float in [0, 1] gives 0
swa_start ==
    IF self._swa_epoch_start.t = "int"
      THEN Max(self._swa_epoch_start.n - 1, 0)
      ELSE 0

\* a variant that reads the loop's current max_epochs
swa_end_live == trainer.max_epochs - 1

\* self._max_epochs - 1
swa_end == self._max_epochs - 1

\* any(isinstance(module, _BatchNorm) for module in pl_module.modules())
pl_module_contains_batch_norm(m) == \E i \in DOMAIN m.bn : TRUE

\* a variant that divides by the number of models already averaged
avg_fn_divide_by_count(averaged_model_parameter, model_parameter, num_averaged) ==
    RAdd(averaged_model_parameter,
         RDivInt(RSub(model_parameter, averaged_model_parameter), num_averaged))

\* averaged + (model - averaged) / (num_averaged + 1)
avg_fn(averaged_model_parameter, model_parameter, num_averaged) ==
    RAdd(averaged_model_parameter,
         RDivInt(RSub(model_parameter, averaged_model_parameter), num_averaged + 1))

\* the function the user passed as avg_fn: it keeps the latest model value
user_fn(averaged_model_parameter, model_parameter, num_averaged) ==
    model_parameter

\* calling the function object fn
Call(fn, a, m, k) == IF fn = "user_fn" THEN user_fn(a, m, k) ELSE avg_fn(a, m, k)

\* a variant whose first assignment keeps the averaged model's own value
update_parameters_keep(average, model, n_averaged, fn) ==
    [p \in ParamNames |->
        IF n_averaged = 0 THEN average[p] ELSE Call(fn, average[p], model[p], n_averaged)]

\* update_parameters: the averaged parameters after the loop over the pairs
update_parameters(average, model, n_averaged, fn) ==
    [p \in ParamNames |->
        IF n_averaged = 0 THEN model[p] ELSE Call(fn, average[p], model[p], n_averaged)]

\* transfer_weights: the parameters of dst after the copy
transfer_weights(src, dst) == [p \in ParamNames |-> src[p]]

\* reset_batch_norm_and_save_state: the modules after the reset
ResetModules(bn) ==
    [i \in DOMAIN bn |->
        [momentum |-> PyNone, running_mean |-> 0, running_var |-> 1,
         num_batches_tracked |-> bn[i].num_batches_tracked * 0]]

\* a variant that reads the momentum after it was set to None
SavedMomentaAfterClear(bn) == [i \in DOMAIN bn |-> PyNone]

\* reset_batch_norm_and_save_state: self.momenta, keyed by module
SavedMomenta(bn) == [i \in DOMAIN bn |-> bn[i].momentum]

\* reset_momenta: the modules after the momenta are written back
reset_momenta(bn, momenta) ==
    [i \in DOMAIN bn |->
        IF i \in DOMAIN momenta THEN [bn[i] EXCEPT !.momentum = momenta[i]] ELSE bn[i]]

---------------------------------------------------------------------------
(* on_before_accelerator_backend_setup *)

\* a variant that checks the optimizers only
SetupRaisesOptimizersOnly(t) == Len(t.optimizers) > 1

\* the two checks that raise MisconfigurationException
SetupRaises(t) == Len(t.optimizers) > 1 \/ Len(t.lr_schedulers) > 1

\* a variant that leaves a float unresolved
ResolveEpochStartNever(v, max_epochs) == v

\* int(trainer.max_epochs * self._swa_epoch_start) for a float, else unchanged
ResolveEpochStart(v, max_epochs) ==
    IF v.t = "float" THEN PyInt(IntOfProduct(max_epochs, v)) ELSE v

on_before_accelerator_backend_setup ==
    /\ pc = "configured"
    /\ \E t \in Trainers, m \in Modules :
        /\ pl_module' = m
        /\ average_model' = [params |-> m.params, device |-> m.device]
        /\ IF SetupRaises(t)
             THEN /\ pc' = "raised"
                  /\ err' = "MisconfigurationException"
                  /\ self' = self
                  /\ trainer' = t
             ELSE /\ pc' = "epoch_start"
                  /\ err' = err
                  /\ self' = [self EXCEPT
                        !._swa_epoch_start = ResolveEpochStart(@, t.max_epochs),
                        !._model_contains_batch_norm = pl_module_contains_batch_norm(m),
                        !._max_epochs = t.max_epochs]
                  /\ trainer' = [t EXCEPT !.max_epochs =
                        IF pl_module_contains_batch_norm(m) THEN @ + 1 ELSE @]
        /\ hist' = [hist EXCEPT !.orig = t]
    /\ UNCHANGED <<args, plugin>>

---------------------------------------------------------------------------
(* on_train_epoch_start *)

\* a hook works on the record of everything it may change
Here ==
    [self |-> self, trainer |-> trainer, pl_module |-> pl_module,
     average_model |-> average_model, hist |-> hist, err |-> err]

\* a variant that activates in every epoch from swa_start on
IsSwaStartOrLater(e) == e >= swa_start

\* line 176: trainer.current_epoch == self.swa_start
IsSwaStart(e) == e = swa_start

\* a variant without the upper end of the window
InSwaWindowOpen(e) == swa_start <= e

\* line 196: self.swa_start <= trainer.current_epoch <= self.swa_end
InSwaWindow(e) == swa_start <= e /\ e <= swa_end

\* a variant that is off by one at swa_end
PastSwaEndInclusive(e) == e >= swa_end

\* lines 199 and 221: trainer.current_epoch > self.swa_end
PastSwaEnd(e) == e > swa_end

\* self._device or pl_module.device
TargetDevice(s) ==
    IF s.self._device.t = "NoneType" THEN s.pl_module.device ELSE "cpu"

\* lines 177-194: move the averaged model, swap the scheduler, zero n_averaged
Activate(s) ==
    LET moved == [s EXCEPT !.average_model.device = TargetDevice(s)]
    IN  IF Len(s.trainer.lr_schedulers) = 0 \/ Len(s.trainer.optimizers) = 0
          THEN [moved EXCEPT !.err = "IndexError"]
          ELSE [moved EXCEPT
                  !.trainer.lr_schedulers[1].scheduler = "SWALR",
                  !.self.n_averaged = 0,
                  !.self.defined = @ \cup {"_swa_scheduler", "n_averaged"},
                  !.hist.swaps = Append(@, s.trainer.current_epoch),
                  !.hist.branches = @ \cup {1}]

\* line 197: update_parameters(self._average_model, pl_module, self.n_averaged, self.avg_fn)
Average(s) ==
    IF "n_averaged" \notin s.self.defined
      THEN [s EXCEPT !.err = "AttributeError"]
      ELSE [s EXCEPT
              !.average_model.params =
                  update_parameters(@, s.pl_module.params, s.self.n_averaged, "avg_fn"),
              !.self.n_averaged = @ + 1,
              !.hist.sum = [p \in ParamNames |->
                  IF s.self.n_averaged = 0
                    THEN s.pl_module.params[p]
                    ELSE RAdd(@[p], s.pl_module.params[p])],
              !.hist.updates = Append(@, s.trainer.current_epoch),
              !.hist.branches = @ \cup {2}]

\* lines 200-212: transfer the weights, reset batch norm, override the loop's fields
Recalibrate(s) ==
    [s EXCEPT
        !.pl_module.params = transfer_weights(s.average_model.params, @),
        !.pl_module.bn = ResetModules(@),
        !.self.momenta = SavedMomenta(s.pl_module.bn),
        !.self._accumulate_grad_batches = s.trainer.accumulate_grad_batches,
        !.self.defined = @ \cup {"momenta", "_accumulate_grad_batches"},
        !.trainer.skip_backward = TRUE,
        !.trainer.num_training_batches = @ + 1,
        !.trainer.accumulate_grad_batches = s.trainer.train_dataloader_len,
        !.hist.transfers = Append(@, <<"on_train_epoch_start", s.trainer.current_epoch>>),
        !.hist.resets = @ + 1,
        !.hist.branches = @ \cup {3}]

\* the three if statements in sequence; an exception ends the hook
EpochStartResult ==
    LET e  == trainer.current_epoch
        s0 == [Here EXCEPT !.hist.branches = {}]
        s1 == IF IsSwaStart(e) THEN Activate(s0) ELSE s0
        s2 == IF s1.err = "none" /\ InSwaWindow(e) THEN Average(s1) ELSE s1
        s3 == IF s2.err = "none" /\ PastSwaEnd(e) THEN Recalibrate(s2) ELSE s2
    IN  IF s3.err = "none" THEN [s3 EXCEPT !.hist.starts = @ + 1] ELSE s3

\* write the result of a hook back
Becomes(s, next_pc) ==
    /\ self' = s.self
    /\ trainer' = s.trainer
    /\ pl_module' = s.pl_module
    /\ average_model' = s.average_model
    /\ hist' = s.hist
    /\ err' = s.err
    /\ pc' = IF s.err = "none" THEN next_pc ELSE "raised"
    /\ UNCHANGED <<args, plugin>>

on_train_epoch_start ==
    /\ pc = "epoch_start"
    /\ Becomes(EpochStartResult, "training")

---------------------------------------------------------------------------
(* the host loop between the two hooks *)

\* the epoch's batches: optimizer steps change the parameters unless
\* _skip_backward is set; a pass with reset batch norm rebuilds its statistics
RunTrainingEpoch ==
    /\ pc = "training"
    /\ pc' = "epoch_end"
    /\ IF trainer.skip_backward
         THEN pl_module' = [pl_module EXCEPT !.bn =
                [i \in DOMAIN @ |-> [@[i] EXCEPT
                    !.running_mean = 5, !.running_var = 7,
                    !.num_batches_tracked = trainer.train_dataloader_len]]]
         ELSE \E w \in Weights : pl_module' = [pl_module EXCEPT !.params = w]
    /\ UNCHANGED <<err, args, self, trainer, average_model, plugin, hist>>

---------------------------------------------------------------------------
(* on_train_epoch_end *)

\* a variant that forgets the batch-norm test
IsFinalSwapAlways(e) == e = swa_end

\* line 218: current_epoch == swa_end and not self._model_contains_batch_norm
IsFinalSwap(e) == e = swa_end /\ ~self._model_contains_batch_norm

\* line 220
FinalSwap(s) ==
    [s EXCEPT
        !.pl_module.params = transfer_weights(s.average_model.params, @),
        !.hist.transfers = Append(@, <<"on_train_epoch_end", s.trainer.current_epoch>>)]

\* a variant that forgets to take the extra batch back
RestoreLoopKeepBatch(s) ==
    [s EXCEPT
        !.trainer.accumulate_grad_batches = s.self._accumulate_grad_batches,
        !.pl_module.bn = reset_momenta(@, s.self.momenta),
        !.hist.restores = @ + 1]

\* lines 223-225
RestoreLoop(s) ==
    IF ~({"momenta", "_accumulate_grad_batches"} \subseteq s.self.defined)
      THEN [s EXCEPT !.err = "AttributeError"]
      ELSE [s EXCEPT
              !.trainer.accumulate_grad_batches = s.self._accumulate_grad_batches,
              !.trainer.num_training_batches = @ - 1,
              !.pl_module.bn = reset_momenta(@, s.self.momenta),
              !.hist.restores = @ + 1]

EpochEndResult ==
    LET e  == trainer.current_epoch
        s0 == [Here EXCEPT !.trainer.skip_backward = FALSE]
    IN  IF IsFinalSwap(e) THEN FinalSwap(s0)
        ELSE IF PastSwaEnd(e) THEN RestoreLoop(s0)
        ELSE s0

on_train_epoch_end ==
    /\ pc = "epoch_end"
    /\ Becomes(EpochEndResult, "advance")

\* the host loop moves to the next epoch, or ends after max_epochs epochs
AdvanceEpoch ==
    /\ pc = "advance"
    /\ trainer' = [trainer EXCEPT !.current_epoch = @ + 1]
    /\ pc' = IF trainer.current_epoch + 1 < trainer.max_epochs THEN "epoch_start" ELSE "done"
    /\ UNCHANGED <<err, args, self, pl_module, average_model, plugin, hist>>

Next ==
    \/ StochasticWeightAveraging
    \/ on_before_accelerator_backend_setup
    \/ on_train_epoch_start
    \/ RunTrainingEpoch
    \/ on_train_epoch_end
    \/ AdvanceEpoch

Spec == Init /\ [][Next]_vars

---------------------------------------------------------------------------
(* The two batch-norm routines called directly, in any order *)

\* the momentum a batch-norm module may be built with: 0.1, 0.01, None
MomentumVals == {PyFloat(1, 10), PyFloat(1, 100), PyNone}

\* models with 0 .. MaxBN batch-norm modules of any momenta
BatchNormModels ==
    UNION {[1 .. k -> [momentum : MomentumVals, running_mean : {5},
                       running_var : {7}, num_batches_tracked : {3}]] :
             k \in 0 .. MaxBN}

InitBatchNorm ==
    /\ pc = "batch_norm"
    /\ err = "none"
    /\ args = NoArgs
    /\ self = NoSelf
    /\ trainer = NoTrainer
    /\ \E b \in BatchNormModels : pl_module = [NoModule EXCEPT !.bn = b]
    /\ average_model = [params |-> InitialWeights, device |-> "none"]
    /\ plugin = NoPlugin
    /\ hist = NoHist

\* self.reset_batch_norm_and_save_state(pl_module)
reset_batch_norm_and_save_state ==
    /\ pc = "batch_norm"
    /\ Len(hist.calls) < MaxCalls
    /\ self' = [self EXCEPT !.momenta = SavedMomenta(pl_module.bn),
                            !.defined = @ \cup {"momenta"}]
    /\ pl_module' = [pl_module EXCEPT !.bn = ResetModules(@)]
    /\ hist' = [hist EXCEPT
            !.calls = Append(@, "reset"),
            !.before = [i \in DOMAIN pl_module.bn |-> pl_module.bn[i].momentum]]
    /\ UNCHANGED <<pc, err, args, trainer, average_model, plugin>>

\* self.reset_momenta(); self.momenta is read before it was ever assigned
CallResetMomenta ==
    /\ pc = "batch_norm"
    /\ Len(hist.calls) < MaxCalls
    /\ IF "momenta" \notin self.defined
         THEN /\ pc' = "raised"
              /\ err' = "AttributeError"
              /\ pl_module' = pl_module
         ELSE /\ pc' = pc
              /\ err' = err
              /\ pl_module' = [pl_module EXCEPT !.bn = reset_momenta(@, self.momenta)]
    /\ hist' = [hist EXCEPT !.calls = Append(@, "restore")]
    /\ UNCHANGED <<args, self, trainer, average_model, plugin>>

NextBatchNorm ==
    \/ reset_batch_norm_and_save_state
    \/ CallResetMomenta

SpecBatchNorm == InitBatchNorm /\ [][NextBatchNorm]_vars

---------------------------------------------------------------------------
(* DeepSpeedPlugin: Python dicts, the environment, the inputs *)

PyBool(b) == [t |-> "bool", n |-> IF b THEN 1 ELSE 0, d |-> 1]

PyStr(s) == [t |-> "str", n |-> 0, d |-> 1, s |-> s]

\* a dict value: items is a function from its keys to Python values
PyDict(items) == [t |-> "dict", n |-> 0, d |-> 1, items |-> items]

\* d[k] = v on the items of a dict
Put(d, k, v) == [x \in DOMAIN d \cup {k} |-> IF x = k THEN v ELSE d[x]]

\* len(x) raises TypeError unless x has a length
HasLen(x) == x.t \in {"dict", "list"}

PyLen(x) == Cardinality(DOMAIN x.items)

\* the strings an environment variable may hold
EnvStrings == {"1", "1.5"}

\* int(s) raises ValueError unless s is the decimal form of an integer
IsIntString(s) == s \in {"0", "1"}

IntOf(s) == IF s = "0" THEN 0 ELSE 1

\* the variables pre_training reads
EnvNames == {"RANK", "WORLD_SIZE", "LOCAL_RANK", "PL_GLOBAL_SEED"}

\* os.environ: a variable that is not set is absent from the domain
Environs == UNION {[S -> EnvStrings] : S \in SUBSET EnvNames}

\* keys the user may set in the config
FreeKeys == {"optimizer", "gradient_clipping"}

\* keys the plugin derives from the host loop
DerivedKeys ==
    {"train_batch_size", "train_micro_batch_size_per_gpu",
     "gradient_accumulation_steps"}

\* the config as given: any free keys, {} included, and at most one derived key
Configs ==
    {[k \in S \cup D |-> PyObj("user")] :
        S \in SUBSET FreeKeys, D \in {{}} \cup {{k} : k \in DerivedKeys}}

\* the devices the plugin is built with
ParallelDevices == {<<"cuda:0">>, <<"cuda:0", "cuda:1">>}

EntryNames == <<"first", "second", "third", "fourth">>

\* a dict of k named entries, as configure_optimizers may return it
DictOf(k) == PyDict([name \in {EntryNames[i] : i \in 1 .. k} |-> PyDict(<<>>)])

\* what configure_optimizers returns: an optimizer and a scheduler, each a
\* dict of 0 .. MaxOpt entries, or an optimizer object, or no scheduler
ConfigureOptimizersReturns ==
    {<<o, s>> : o \in {DictOf(k) : k \in 0 .. MaxOpt} \cup {PyObj("torch.optim.Adam")},
                s \in {DictOf(k) : k \in 0 .. MaxOpt} \cup {PyNone}}

\* precision and amp backend of the trainer's accelerator connector
PrecisionArgs ==
    {[precision |-> 32, amp_type |-> "native"],
     [precision |-> 16, amp_type |-> "native"],
     [precision |-> 16, amp_type |-> "apex"]}

\* the host loops the plugin may be attached to
DeepSpeedTrainers ==
    {[max_epochs |-> 1, current_epoch |-> 0,
      optimizers |-> [i \in 1 .. n |-> "optimizer"],
      lr_schedulers |-> [i \in 1 .. n |-> [scheduler |-> "user_scheduler"]],
      skip_backward |-> FALSE, num_training_batches |-> 4,
      accumulate_grad_batches |-> 2, train_dataloader_len |-> 4,
      precision |-> a.precision, amp_type |-> a.amp_type, amp_level |-> "O2",
      gradient_clip_val |-> PyFloat(1, 2)] :
        n \in {1}, a \in PrecisionArgs}

\* the models setup may be handed
DeepSpeedModules ==
    {[params |-> InitialWeights, bn |-> <<>>, device |-> "cpu", training |-> tr,
      configure_optimizers |-> r, batch_size |-> 8] :
        tr \in BOOLEAN, r \in ConfigureOptimizersReturns}

---------------------------------------------------------------------------
(* DeepSpeedPlugin.__init__ and setup *)

\* lines 72-79: the plugin after __init__(parallel_devices, config)
InitDeepSpeed ==
    /\ pc = "plugin_new"
    /\ err = "none"
    /\ args = NoArgs
    /\ self = NoSelf
    /\ trainer = NoTrainer
    /\ pl_module = NoModule
    /\ average_model = [params |-> InitialWeights, device |-> "none"]
    /\ \E c \in Configs, p \in ParallelDevices :
         plugin = [NoPlugin EXCEPT !.parallel_devices = p, !.config = c]
    /\ hist = NoHist

\* lines 82-83
setup ==
    /\ pc = "plugin_new"
    /\ \E m \in DeepSpeedModules, t \in DeepSpeedTrainers :
        /\ pl_module' = m
        /\ trainer' = t
        /\ hist' = [hist EXCEPT !.orig = t, !.config = plugin.config]
    /\ plugin' = [plugin EXCEPT !.model = "LightningModule"]
    /\ pc' = "plugin_ready"
    /\ UNCHANGED <<err, args, self, average_model>>

---------------------------------------------------------------------------
(* DeepSpeedPlugin.pre_training and the routines it calls.  Each routine   *)
(* maps the record of everything pre_training may change to that record   *)
(* after the routine; err names the exception that left the routine.      *)

Raise(r, e) == [r EXCEPT !.err = e]

Step(r, name) == [r EXCEPT !.hist.steps = Append(@, name)]

\* lines 108-110: deepspeed.init_distributed starts the process group
init_connection(r) ==
    [Step(r, "init_connection") EXCEPT !.plugin.is_initialized = TRUE]

\* int(os.environ[name]): KeyError when unset, ValueError when not an integer
EnvironInt(environ, name) ==
    IF name \notin DOMAIN environ THEN [err |-> "KeyError", v |-> -1]
    ELSE IF ~IsIntString(environ[name]) THEN [err |-> "ValueError", v |-> -1]
    ELSE [err |-> "none", v |-> IntOf(environ[name])]

\* lines 148-151: the three assignments in sequence
set_world_ranks(r) ==
    LET rank  == EnvironInt(r.environ, "RANK")
        world == EnvironInt(r.environ, "WORLD_SIZE")
        local == EnvironInt(r.environ, "LOCAL_RANK")
        s0 == Step(r, "set_world_ranks")
        s1 == [s0 EXCEPT !.plugin.global_rank = rank.v]
        s2 == [s1 EXCEPT !.plugin.world_size = world.v]
        s3 == [s2 EXCEPT !.plugin.local_rank = local.v]
    IN  IF rank.err # "none" THEN Raise(s0, rank.err)
        ELSE IF world.err # "none" THEN Raise(s1, world.err)
        ELSE IF local.err # "none" THEN Raise(s2, local.err)
        ELSE s3

\* lines 190-216.  Line 201 reads "not len(optimizer) == 1 or
\* len(scheduler) == 1"; line 206 subscripts dict.items(), a TypeError, so
\* the assignments of lines 208-216 are never reached
_format_optimizer_config(r) ==
    LET opt   == r.pl_module.configure_optimizers[1]
        sched == r.pl_module.configure_optimizers[2]
        s0    == [r EXCEPT !.plugin.optimizer = opt, !.plugin.scheduler = sched]
    IN  IF "optimizer" \in DOMAIN r.plugin.config THEN r
        ELSE IF ~(opt.t = "dict" \/ sched.t = "dict")
          THEN Raise(s0, "MisconfigurationException")
        ELSE IF ~HasLen(opt) THEN Raise(s0, "TypeError")
        ELSE IF ~(PyLen(opt) = 1) THEN Raise(s0, "MisconfigurationException")
        ELSE IF ~HasLen(sched) THEN Raise(s0, "TypeError")
        ELSE IF PyLen(sched) = 1 THEN Raise(s0, "MisconfigurationException")
        ELSE Raise(s0, "TypeError")

\* a variant that writes the derived keys before it checks the config
_format_batch_size_grad_accum_config_write_first(r) ==
    LET config == r.plugin.config
        c1 == Put(config, "train_micro_batch_size_per_gpu", PyInt(r.pl_module.batch_size))
        c2 == Put(c1, "gradient_accumulation_steps", PyInt(r.trainer.accumulate_grad_batches))
    IN  IF DOMAIN config \cap DerivedKeys # {}
          THEN Raise([r EXCEPT !.plugin.config = c2], "MisconfigurationException")
          ELSE [r EXCEPT !.plugin.config = c2]

\* lines 218-232
_format_batch_size_grad_accum_config(r) ==
    LET config == r.plugin.config
        c1 == Put(config, "train_micro_batch_size_per_gpu", PyInt(r.pl_module.batch_size))
        c2 == Put(c1, "gradient_accumulation_steps", PyInt(r.trainer.accumulate_grad_batches))
        c3 == IF "gradient_clipping" \notin DOMAIN c2
                THEN Put(c2, "gradient_clipping", r.trainer.gradient_clip_val)
                ELSE c2
    IN  IF "train_batch_size" \in DOMAIN config
             \/ "train_micro_batch_size_per_gpu" \in DOMAIN config
          THEN Raise(r, "MisconfigurationException")
        ELSE IF "gradient_accumulation_steps" \in DOMAIN config
          THEN Raise(r, "MisconfigurationException")
        ELSE [r EXCEPT !.plugin.config = c3]

\* lines 234-248
_format_precision_config(r) ==
    LET config == r.plugin.config
        t == r.trainer
    IN  IF t.precision = 16
          THEN IF "amp" \notin DOMAIN config /\ t.amp_type = "native"
                 THEN [r EXCEPT !.plugin.config =
                         Put(@, "fp16", PyDict([enabled |-> PyBool(TRUE)]))]
               ELSE IF "apex" \notin DOMAIN config /\ t.amp_type = "apex"
                 THEN [r EXCEPT !.plugin.config =
                         Put(@, "amp", PyDict([enabled |-> PyBool(TRUE),
                                               opt_level |-> PyStr(t.amp_level)]))]
               ELSE r
          ELSE r

\* the next routine runs on the outcome r of the routines before it, unless
\* one of them raised
Then(r, next) == IF r.err = "none" THEN next ELSE r

\* lines 180-188
_format_config(r) ==
    IF DOMAIN r.plugin.config = {}
      THEN Raise(Step(r, "_format_config"), "MisconfigurationException")
      ELSE CHOOSE s3 \in
             {Then(s2, _format_precision_config(s2)) : s2 \in
             {Then(s1, _format_batch_size_grad_accum_config(s1)) : s1 \in
             {_format_optimizer_config(Step(r, "_format_config"))}}} : TRUE

\* line 115
MarkInitialized(r) == [r EXCEPT !.plugin._config_initialized = TRUE]

\* lines 135-146
configure_scheduler(lr_scheduler) ==
    <<[scheduler |-> lr_scheduler, name |-> "None", interval |-> "epoch",
       frequency |-> 1, reduce_on_plateau |-> FALSE, monitor |-> "None",
       strict |-> TRUE]>>

\* a variant that replaces the host loop's lists in evaluation mode too
ReplaceListsAlways(r) ==
    [Step(r, "trainer.optimizers") EXCEPT
                 !.trainer.optimizers = <<"deepspeed_optimizer">>,
                 !.trainer.lr_schedulers = configure_scheduler("deepspeed_scheduler")]

\* lines 128-132: the engine's optimizer and scheduler replace the host
\* loop's lists when the module is in training mode
ReplaceLists(r) ==
    IF r.pl_module.training
      THEN [Step(r, "trainer.optimizers") EXCEPT
                 !.trainer.optimizers = <<"deepspeed_optimizer">>,
                 !.trainer.lr_schedulers = configure_scheduler("deepspeed_scheduler")]
      ELSE r

\* lines 113-115: the config is formatted on the first call only
FormatOnce(r) ==
    IF r.plugin._config_initialized THEN r
    ELSE CHOOSE s1 \in {Then(f, MarkInitialized(f)) : f \in {_format_config(r)}} : TRUE

\* lines 117-127 and 133: deepspeed.initialize wraps the model in an engine
Initialize(r) ==
    [Step(r, "deepspeed.initialize") EXCEPT !.plugin.model = "DeepSpeedEngine"]

\* lines 112-133
init_deepspeed(r) ==
    CHOOSE s3 \in
      {Then(s2, ReplaceLists(s2)) : s2 \in
      {Then(s1, Initialize(s1)) : s1 \in
      {FormatOnce(r)}}} : TRUE

\* lines 93-95: seed_everything(int(seed)) when PL_GLOBAL_SEED is set
SeedFromEnviron(r) ==
    IF "PL_GLOBAL_SEED" \in DOMAIN r.environ
         /\ ~IsIntString(r.environ["PL_GLOBAL_SEED"])
      THEN Raise(r, "ValueError")
      ELSE r

\* lines 153-155: parallel_devices[local_rank], an IndexError past the end
HasRootDevice(p) == p.local_rank < Len(p.parallel_devices)

root_device(p) == p.parallel_devices[p.local_rank + 1]

\* lines 98-102
SetRanksAndDevices(r) ==
    IF ~HasRootDevice(r.plugin)
      THEN Raise([r EXCEPT !.plugin.dist.rank = r.plugin.global_rank], "IndexError")
      ELSE [r EXCEPT !.plugin.dist = [rank |-> r.plugin.global_rank,
                                      device |-> root_device(r.plugin)]]

\* lines 250-253
model_to_device(r) ==
    [Step(r, "model_to_device") EXCEPT !.pl_module.device = root_device(r.plugin)]

\* lines 260-262
barrier(r) ==
    IF r.plugin.is_initialized THEN Step(r, "barrier") ELSE r

\* the plugin and what it reaches, as pre_training finds them
HerePlugin(environ) ==
    [plugin |-> plugin, trainer |-> trainer, pl_module |-> pl_module,
     hist |-> [hist EXCEPT !.environ = environ], err |-> err,
     environ |-> environ]

\* lines 85-106
PreTrainingResult(environ) ==
    CHOOSE r7 \in
      {Then(r6, barrier(r6)) : r6 \in
      {Then(r5, model_to_device(r5)) : r5 \in
      {Then(r4, SetRanksAndDevices(r4)) : r4 \in
      {Then(r3, SeedFromEnviron(r3)) : r3 \in
      {Then(r2, init_deepspeed(r2)) : r2 \in
      {Then(r1, set_world_ranks(r1)) : r1 \in
      {init_connection(HerePlugin(environ))}}}}}}} : TRUE

pre_training ==
    /\ pc = "plugin_ready"
    /\ \E environ \in Environs :
         \E r \in {PreTrainingResult(environ)} :
             /\ plugin' = r.plugin
             /\ trainer' = r.trainer
             /\ pl_module' = r.pl_module
             /\ hist' = r.hist
             /\ err' = r.err
             /\ pc' = IF r.err = "none" THEN "pre_trained" ELSE "raised"
    /\ UNCHANGED <<args, self, average_model>>

\* a later engine initialization: init_deepspeed() called once more on the
\* plugin that pre_training has set up
CallInitDeepspeed ==
    /\ pc = "pre_trained"
    /\ \E r \in {init_deepspeed([HerePlugin(hist.environ) EXCEPT
                                    !.hist.finalized = plugin.config])} :
             /\ plugin' = r.plugin
             /\ trainer' = r.trainer
             /\ pl_module' = r.pl_module
             /\ hist' = r.hist
             /\ err' = r.err
             /\ pc' = IF r.err = "none" THEN "reinitialized" ELSE "raised"
    /\ UNCHANGED <<args, self, average_model>>

NextDeepSpeed ==
    \/ setup
    \/ pre_training
    \/ CallInitDeepspeed

SpecDeepSpeed == InitDeepSpeed /\ [][NextDeepSpeed]_vars

---------------------------------------------------------------------------
(* Vocabulary of the properties *)

\* on_before_accelerator_backend_setup has returned normally
SetupDone == self._max_epochs > 0

\* the model handed to the hooks contains batch normalization
HasBatchNorm == pl_module_contains_batch_norm(pl_module)

\* between on_train_epoch_start and on_train_epoch_end of an epoch > swa_end
InRecalibrationEpoch ==
    /\ pc \in {"training", "epoch_end"}
    /\ trainer.current_epoch > swa_end

\* the epochs lo .. hi in order
EpochRange(lo, hi) == [i \in 1 .. Max(0, hi - lo + 1) |-> lo + i - 1]

Min(a, b) == IF a <= b THEN a ELSE b

---------------------------------------------------------------------------
C2_TransferExactlyOnce ==
    /\ Len(hist.transfers) <= 1
    /\ \A i \in DOMAIN hist.transfers :
          hist.transfers[i] =
              IF HasBatchNorm
                THEN <<"on_train_epoch_start", swa_end + 1>>
                ELSE <<"on_train_epoch_end", swa_end>>
    /\ pc = "done" => Len(hist.transfers) = 1

C2_Witness ==
    /\ pc = "done"
    /\ HasBatchNorm
    /\ hist.transfers = <<<<"on_train_epoch_start", hist.orig.max_epochs>>>>

(* C3 as stated: over any run that reaches its end the scheduler entry is  *)
(* replaced exactly once.                                                  *)
C3_ReplacedExactlyOnce == pc = "done" => Len(hist.swaps) = 1

(* C3 amended: the scheduler entry is replaced at most once, only in       *)
(* on_train_epoch_start of swa_start; from then on it is the annealing     *)
(* scheduler, before it is the loop's own; a run that reaches its end has  *)
(* replaced it exactly once if swa_start is one of its epochs, and never   *)
(* otherwise.                                                              *)
C3_SwapOnceAtSwaStart ==
    /\ Len(hist.swaps) <= 1
    /\ \A i \in DOMAIN hist.swaps : hist.swaps[i] = swa_start
    /\ Len(hist.swaps) = 1 =>
          /\ Len(trainer.lr_schedulers) = 1
          /\ trainer.lr_schedulers[1].scheduler = "SWALR"
    /\ Len(hist.swaps) = 0 => trainer.lr_schedulers = hist.orig.lr_schedulers
    /\ pc = "done" => (Len(hist.swaps) = 1 <=> swa_start < trainer.max_epochs)

C3_Witness ==
    /\ pc = "done"
    /\ hist.swaps = <<1>>
    /\ trainer.lr_schedulers[1].scheduler = "SWALR"

(* C4 as stated: a single on_train_epoch_start call executes at most one   *)
(* of its three branches.                                                  *)
C4_AtMostOneBranch == pc = "training" => Cardinality(hist.branches) <= 1

(* C4 amended: the averaging branch (2) and the recalibration branch (3)   *)
(* are mutually exclusive, (2) running exactly for swa_start <= epoch <=   *)
(* swa_end and (3) exactly for epoch > swa_end; the activation branch (1)  *)
(* runs exactly for epoch = swa_start, in the same call as (2) or (3).     *)
C4_BranchesByEpoch ==
    pc = "training" =>
        LET e == trainer.current_epoch
        IN  /\ ~({2, 3} \subseteq hist.branches)
            /\ 1 \in hist.branches <=> e = swa_start
            /\ 2 \in hist.branches <=> (swa_start <= e /\ e <= swa_end)
            /\ 3 \in hist.branches <=> e > swa_end
            /\ 1 \in hist.branches => (2 \in hist.branches \/ 3 \in hist.branches)

C4_Witness ==
    /\ pc = "training"
    /\ hist.branches = {1, 2}

(* C5: _skip_backward is set, num_training_batches is the original + 1 and *)
(* accumulate_grad_batches is the dataloader's length exactly between      *)
(* on_train_epoch_start and on_train_epoch_end of an epoch > swa_end,      *)
(* after one reset of batch norm and before its restore; in every other    *)
(* state the three fields have their original values and every reset has   *)
(* had its restore; a run with batch norm that reaches its end has made    *)
(* one reset and one restore.                                              *)
C5_OverridesPaired ==
    /\ IF InRecalibrationEpoch
         THEN /\ trainer.skip_backward
              /\ trainer.num_training_batches = hist.orig.num_training_batches + 1
              /\ trainer.accumulate_grad_batches = trainer.train_dataloader_len
              /\ hist.resets = 1 /\ hist.restores = 0
         ELSE /\ ~trainer.skip_backward
              /\ trainer.num_training_batches = hist.orig.num_training_batches
              /\ trainer.accumulate_grad_batches = hist.orig.accumulate_grad_batches
              /\ hist.resets = hist.restores /\ hist.resets <= 1
    /\ pc = "done" => hist.restores = (IF HasBatchNorm THEN 1 ELSE 0)

C5_Witness ==
    /\ pc = "advance"
    /\ hist.resets = 1 /\ hist.restores = 1
    /\ trainer.num_training_batches = hist.orig.num_training_batches
    /\ \A i \in DOMAIN pl_module.bn : pl_module.bn[i].momentum.t = "float"

(* C6: a successful on_before_accelerator_backend_setup raises max_epochs  *)
(* by one exactly if the model contains batch norm; swa_end is the         *)
(* original max_epochs - 1 in both cases; a hook runs for an epoch >       *)
(* swa_end only if batch norm was detected.                                *)
C6_ExtraEpochIffBatchNorm ==
    SetupDone =>
        /\ trainer.max_epochs = hist.orig.max_epochs + (IF HasBatchNorm THEN 1 ELSE 0)
        /\ self._model_contains_batch_norm = HasBatchNorm
        /\ swa_end = hist.orig.max_epochs - 1
        /\ (pc \in {"epoch_start", "training", "epoch_end", "advance"}
              /\ trainer.current_epoch > swa_end) => HasBatchNorm

C6_Witness ==
    /\ pc = "training"
    /\ HasBatchNorm
    /\ trainer.current_epoch > swa_end
    /\ trainer.max_epochs = hist.orig.max_epochs + 1

(* C7 as stated: for a float swa_epoch_start f and E epochs, swa_start is  *)
(* int(f * E) - 1 after on_before_accelerator_backend_setup.               *)
C7_StartIsProductMinusOne ==
    (SetupDone /\ hist.given_start.t = "float")
        => swa_start = IntOfProduct(hist.orig.max_epochs, hist.given_start) - 1

(* C7 amended: for a float swa_epoch_start f in [0, 1] and E epochs,       *)
(* swa_start is max(int(f * E) - 1, 0) after the setup hook, and the       *)
(* resolved integer int(f * E) is what _swa_epoch_start holds in every     *)
(* later state.                                                            *)
C7_StartIsClampedProduct ==
    (SetupDone /\ hist.given_start.t = "float")
        => /\ self._swa_epoch_start =
                  PyInt(IntOfProduct(hist.orig.max_epochs, hist.given_start))
           /\ swa_start =
                  Max(IntOfProduct(hist.orig.max_epochs, hist.given_start) - 1, 0)

C7_Witness ==
    /\ pc = "done"
    /\ hist.given_start = PyFloat(3, 4)
    /\ hist.orig.max_epochs = 3
    /\ swa_start = 1

(* C8: after a successful setup hook swa_start >= 0 in every state; for an *)
(* integer swa_epoch_start it is swa_epoch_start - 1 in every state.       *)
C8_StartNonNegativeAndStable ==
    SetupDone =>
        /\ swa_start >= 0
        /\ hist.given_start.t = "int" => swa_start = hist.given_start.n - 1

C8_Witness ==
    /\ pc = "epoch_end"
    /\ hist.given_start = PyInt(3)
    /\ swa_start = 2
    /\ trainer.current_epoch = 2

(* C9: when on_train_epoch_start of swa_start has returned, n_averaged was *)
(* set to 0 and, inside the window, the one Update made with it left every *)
(* averaged parameter equal to the model's parameter.                      *)
C9_FirstUpdateCopies ==
    (pc = "training" /\ trainer.current_epoch = swa_start) =>
        IF swa_start <= swa_end
          THEN /\ self.n_averaged = 1
               /\ average_model.params = pl_module.params
          ELSE self.n_averaged = 0

C9_Witness ==
    /\ pc = "training"
    /\ trainer.current_epoch = swa_start
    /\ swa_start = 1
    /\ self.n_averaged = 1
    /\ average_model.params = pl_module.params
    /\ average_model.params # InitialWeights

(* C10: when a function was passed as avg_fn, an Update made with          *)
(* n_averaged > 0 sets every averaged parameter to that function's value.  *)
C10_SuppliedFunctionUsed ==
    [][(/\ pc = "epoch_start" /\ pc' = "training"
        /\ self._avg_fn = "user_fn"
        /\ InSwaWindow(trainer.current_epoch)
        /\ "n_averaged" \in self.defined
        /\ self.n_averaged' = self.n_averaged + 1
        /\ self.n_averaged > 0)
          => average_model'.params =
                [p \in ParamNames |->
                    user_fn(average_model.params[p], pl_module.params[p],
                            self.n_averaged)]]_vars

---------------------------------------------------------------------------
(* C11: with the built-in averaging function, after n >= 1 Updates counted *)
(* from n_averaged = 0 every averaged parameter is the arithmetic mean of  *)
(* the n model values fed in (their sum, kept in hist.sum, divided by n).  *)
C11_DefaultIsArithmeticMean ==
    ("n_averaged" \in self.defined /\ self.n_averaged >= 1) =>
        \A p \in ParamNames :
            average_model.params[p] = RDivInt(hist.sum[p], self.n_averaged)

C11_Witness ==
    /\ self.n_averaged = 3
    /\ average_model.params["weight"] = <<1, 3>>
    /\ average_model.params["bias"] = <<2, 3>>

---------------------------------------------------------------------------
(* C14: __init__ raises exactly when swa_lrs is neither a positive float   *)
(* nor a non-empty list of positive floats (the other arguments valid).    *)
LrsAcceptable(v) ==
    \/ v.t = "float" /\ v.n > 0
    \/ /\ v.t = "list"
       /\ Len(v.items) >= 1
       /\ \A i \in DOMAIN v.items : v.items[i].t = "float" /\ v.items[i].n > 0

C14_SwaLrsValidated ==
    [][(pc = "new" /\ pc' # "new"
          /\ ~InitRaises([args EXCEPT !.swa_lrs = PyFloat(1, 10)]))
        => (pc' = "raised" <=> ~LrsAcceptable(args.swa_lrs))]_vars

---------------------------------------------------------------------------
(* C15: on_before_accelerator_backend_setup raises exactly when the        *)
(* trainer holds more than one optimizer or more than one lr scheduler,    *)
(* and then the trainer (max_epochs, optimizers, lr_schedulers) is as it   *)
(* was handed in, also for a model with batch norm.                        *)
SetupRaised ==
    /\ pc = "raised"
    /\ err = "MisconfigurationException"
    /\ self # NoSelf

C15_SetupFailureLeavesLoopUntouched ==
    /\ SetupRaised =>
          /\ Len(trainer.optimizers) > 1 \/ Len(trainer.lr_schedulers) > 1
          /\ trainer = hist.orig
    /\ SetupDone =>
          /\ Len(hist.orig.optimizers) <= 1
          /\ Len(hist.orig.lr_schedulers) <= 1

C15_Witness ==
    /\ SetupRaised
    /\ HasBatchNorm
    /\ Len(trainer.optimizers) = 1
    /\ Len(trainer.lr_schedulers) = 2
    /\ trainer.max_epochs = hist.orig.max_epochs

---------------------------------------------------------------------------
(* C20: whenever transfer_weights has copied the averaged model into the   *)
(* model, at least one Update had been applied to the averaged model.      *)
C20_TransferOnlyAfterUpdate ==
    Len(hist.transfers) >= 1 => Len(hist.updates) >= 1

---------------------------------------------------------------------------
(* C12: after reset_batch_norm_and_save_state every batch-norm module's    *)
(* momentum is None, and after the reset_momenta call that follows it      *)
(* every module's momentum is the one it had before the reset, for 0, 1 or *)
(* more modules of any momenta.                                            *)
C12_MomentumRoundTrip ==
    LET n == Len(hist.calls)
    IN  /\ (n >= 1 /\ hist.calls[n] = "reset") =>
              \A i \in DOMAIN pl_module.bn : pl_module.bn[i].momentum = PyNone
        /\ (n >= 2 /\ hist.calls[n] = "restore" /\ hist.calls[n - 1] = "reset") =>
              /\ err = "none"
              /\ DOMAIN hist.before = DOMAIN pl_module.bn
              /\ \A i \in DOMAIN pl_module.bn :
                    pl_module.bn[i].momentum = hist.before[i]

C12_Witness ==
    /\ hist.calls = <<"reset", "restore">>
    /\ Len(pl_module.bn) = 2
    /\ pl_module.bn[1].momentum = PyFloat(1, 10)
    /\ pl_module.bn[2].momentum = PyFloat(1, 100)

(* C13: a reset_momenta call that is not directly preceded by its          *)
(* reset_batch_norm_and_save_state (the first call of all, or a second     *)
(* restore after a matched pair) raises.                                   *)
C13_UnmatchedRestoreRaises ==
    LET n == Len(hist.calls)
    IN  (/\ n >= 1
         /\ hist.calls[n] = "restore"
         /\ (n = 1 \/ hist.calls[n - 1] # "reset"))
            => err # "none"


---------------------------------------------------------------------------
(* Vocabulary of the DeepSpeedPlugin properties *)

\* pre_training has entered the named routine
Entered(name) == \E i \in DOMAIN hist.steps : hist.steps[i] = name

\* pre_training was called, and returned or raised
PreTrainingCalled == pc \in {"pre_trained", "raised"} /\ hist.steps # <<>>

\* the config the plugin was built with
UserConfig == hist.config

\* x is a dict of exactly one entry
ExactlyOne(x) == x.t = "dict" /\ PyLen(x) = 1

\* the three rank variables
RankNames == {"RANK", "WORLD_SIZE", "LOCAL_RANK"}

\* some rank variable is unset or is not an integer
BadRanks(environ) ==
    \E name \in RankNames :
        name \notin DOMAIN environ \/ ~IsIntString(environ[name])

\* s is an initial part of t
IsPrefix(s, t) == Len(s) <= Len(t) /\ s = SubSeq(t, 1, Len(s))

\* the routines of a pre_training that returns, in the order of the source
FixedOrder(training) ==
    <<"init_connection", "set_world_ranks", "_format_config", "deepspeed.initialize">>
        \o (IF training THEN <<"trainer.optimizers">> ELSE <<>>)
        \o <<"model_to_device", "barrier">>

---------------------------------------------------------------------------
\* C16: when the config as given has no "optimizer" entry (and nothing else
\* stops the formatting: it is not empty and holds no derived key), the
\* optimizer and scheduler come from configure_optimizers: the formatting
\* succeeds and writes config["optimizer"] and config["scheduler"] when the
\* callback returns exactly one optimizer and exactly one scheduler, and it
\* raises MisconfigurationException for every other count.
C16_OptimizerFromCallback ==
    (/\ PreTrainingCalled
     /\ Entered("_format_config")
     /\ "optimizer" \notin DOMAIN UserConfig
     /\ DOMAIN UserConfig # {}
     /\ DOMAIN UserConfig \cap DerivedKeys = {})
        => IF ExactlyOne(pl_module.configure_optimizers[1])
                /\ ExactlyOne(pl_module.configure_optimizers[2])
             THEN /\ plugin._config_initialized
                  /\ {"optimizer", "scheduler"} \subseteq DOMAIN plugin.config
             ELSE err = "MisconfigurationException"

\* C17: the formatting raises MisconfigurationException whenever the config
\* as given holds train_batch_size, train_micro_batch_size_per_gpu or
\* gradient_accumulation_steps, and deepspeed.initialize is then never
\* called; a formatting that succeeds has set train_micro_batch_size_per_gpu
\* and gradient_accumulation_steps from the data loader and the trainer.
C17_DerivedKeysRejected ==
    (PreTrainingCalled /\ Entered("_format_config"))
        => /\ DOMAIN UserConfig \cap DerivedKeys # {}
                => /\ err = "MisconfigurationException"
                   /\ ~Entered("deepspeed.initialize")
           /\ (DOMAIN UserConfig \cap DerivedKeys = {} /\ plugin._config_initialized)
                => /\ {"train_micro_batch_size_per_gpu",
                        "gradient_accumulation_steps"} \subseteq DOMAIN plugin.config
                   /\ plugin.config["train_micro_batch_size_per_gpu"]
                         = PyInt(pl_module.batch_size)
                   /\ plugin.config["gradient_accumulation_steps"]
                         = PyInt(trainer.accumulate_grad_batches)

\* C18: pre_training raises MisconfigurationException whenever one of RANK,
\* WORLD_SIZE, LOCAL_RANK is unset or not an integer.
C18_BadRanksRaiseMisconfiguration ==
    (PreTrainingCalled /\ BadRanks(hist.environ))
        => err = "MisconfigurationException"

\* C19: a pre_training that returns has run its routines in the fixed order
\* init_connection, set_world_ranks, _format_config, deepspeed.initialize,
\* the replacement of the trainer's optimizer and scheduler lists exactly
\* when the module is in training mode (otherwise both lists are as they
\* were), model_to_device, and the barrier last; a pre_training that raises
\* has run an initial part of that order without the barrier.
C19_StepsInFixedOrder ==
    /\ pc = "pre_trained"
          => /\ hist.steps = FixedOrder(pl_module.training)
             /\ IF pl_module.training
                  THEN /\ trainer.optimizers = <<"deepspeed_optimizer">>
                       /\ trainer.lr_schedulers = configure_scheduler("deepspeed_scheduler")
                  ELSE /\ trainer.optimizers = hist.orig.optimizers
                       /\ trainer.lr_schedulers = hist.orig.lr_schedulers
    /\ (pc = "raised" /\ hist.steps # <<>>)
          => /\ IsPrefix(hist.steps, FixedOrder(pl_module.training))
             /\ ~Entered("barrier")
             /\ err # "none"

\* a pre_training in evaluation mode has returned: six routines, lists kept
C19_Witness ==
    /\ pc = "pre_trained"
    /\ ~pl_module.training
    /\ Len(hist.steps) = 6
    /\ hist.steps[6] = "barrier"
    /\ trainer.optimizers = <<"optimizer">>


---------------------------------------------------------------------------
\* C21: once on_before_accelerator_backend_setup has returned, the
\* on_train_epoch_start of epoch swa_start swaps the scheduler without an
\* error, for every number of optimizers and lr schedulers the setup accepts
\* (zero of either included).
C21_SwapCompletesAfterSetup ==
    (/\ SetupDone
     /\ pc \in {"training", "raised"}
     /\ trainer.current_epoch = swa_start)
        => /\ err = "none"
           /\ "_swa_scheduler" \in self.defined
           /\ trainer.lr_schedulers[1].scheduler = "SWALR"


---------------------------------------------------------------------------
\* how often pre_training and the later initialization entered the routine
TimesEntered(name) == Cardinality({i \in DOMAIN hist.steps : hist.steps[i] = name})

\* C22: formatting the config is all or nothing.  When _format_config raises
\* MisconfigurationException (empty config, optimizer sourcing, derived-key
\* check) the config holds exactly the keys and values it was given and
\* _config_initialized stays False; when it returns, _config_initialized is
\* True, and a later init_deepspeed does not format again: the routine was
\* entered once and the config is the one the first formatting left.
C22_FormattingAllOrNothing ==
    /\ (/\ pc = "raised"
         /\ Entered("_format_config")
         /\ err = "MisconfigurationException")
          => /\ plugin.config = UserConfig
             /\ ~plugin._config_initialized
    /\ pc \in {"pre_trained", "reinitialized"}
          => /\ plugin._config_initialized
             /\ TimesEntered("_format_config") = 1
    /\ pc = "reinitialized"
          => /\ plugin.config = hist.finalized
             /\ TimesEntered("deepspeed.initialize") = 2

\* the derived-key check has raised on a config that holds an optimizer,
\* with a precision for which the formatting would have written fp16
C22_Witness ==
    /\ pc = "raised"
    /\ err = "MisconfigurationException"
    /\ Entered("_format_config")
    /\ DOMAIN UserConfig = {"optimizer", "gradient_accumulation_steps"}
    /\ trainer.precision = 16
    /\ plugin.config = UserConfig

===========================================================================
